---- MODULE Spec2Model ----
(***************************************************************************)
(* patient_queue.py: PatientHeapQueue, a 0-indexed array-backed max-heap   *)
(* of Patient records, and EditablePatientHeapQueue, which adds a          *)
(* name -> index dictionary and remove(name).                              *)
(*                                                                         *)
(* Indices are the 0-based Python indices throughout; At/SetAt translate   *)
(* them to the 1-based TLA+ sequence that holds self.data.  A queue value  *)
(* q is the record [data, indices, comparisons, err, ret, swaps]: the     *)
(* three attributes of the object, whether the call in progress has       *)
(* raised, the value it returns and the _swap(i, j) calls it has made.    *)
(* Once err is set the rest of the call is skipped, as after a Python     *)
(* exception, and what was mutated so far stays mutated.                  *)
(***************************************************************************)
EXTENDS Integers, Sequences, FiniteSets, TLC

VARIABLES cls, data, indices, comparisons, loop_index, last, prev, drained, drain_from, live,
          removed

vars == <<cls, data, indices, comparisons, loop_index, last, prev, drained, drain_from, live,
          removed>>

-----------------------------------------------------------------------------
(* Bounds and inputs *)

NumPatients == 6
MaxInit == 3
MaxBuild == 5
MaxComparisons == 8
MaxDupSize == 3

NameSeq == <<"a", "b", "c", "d", "e", "f", "g", "h", "i", "j">>

\* The priority of the k-th patient of the roster: 4, 2, 5, 3, 1, 4, 2, ...
\* (patients 1 and 6 tie, every five consecutive ones are pairwise distinct).
PriorityOf(k) == ((3 * k) % 5) + 1

Patients == {[name |-> NameSeq[k], priority |-> PriorityOf(k)] : k \in 1..NumPatients}

Names == {p.name : p \in Patients}

NoPatient == [name |-> "", priority |-> 0]

\* A name that no patient of the roster has.
Stranger == "nobody"

Base == "PatientHeapQueue"
Editable == "EditablePatientHeapQueue"
Classes == {Base, Editable}

Range(s) == {s[k] : k \in DOMAIN s}

NamesOf(s) == {s[k].name : k \in DOMAIN s}

DistinctNames(s) == \A i, j \in DOMAIN s : i # j => s[i].name # s[j].name

DistinctPriorities(s) == \A i, j \in DOMAIN s : i # j => s[i].priority # s[j].priority

\* The start_data arguments of at most n patients, with pairwise distinct names.
StartData(n) == {s \in UNION {[1..k -> Patients] : k \in 0..n} : DistinctNames(s)}

-----------------------------------------------------------------------------
(* Python list and dict primitives *)

None == -1

At(s, i) == s[i + 1]

SetAt(s, i, v) == [s EXCEPT ![i + 1] = v]

Pop(s) == SubSeq(s, 1, Len(s) - 1)

Put(d, k, v) == [x \in (DOMAIN d) \cup {k} |-> IF x = k THEN v ELSE d[x]]

Del(d, k) == [x \in (DOMAIN d) \ {k} |-> d[x]]

EmptyDict == [x \in {} |-> 0]

Raise(q) == [q EXCEPT !.err = TRUE]

NewQueue == [data |-> <<>>, indices |-> EmptyDict, comparisons |-> 0,
             err |-> FALSE, ret |-> NoPatient, swaps |-> <<>>]

-----------------------------------------------------------------------------
(* PatientHeapQueue *)

\* Mutant of BaseSwap: data[i] = data[j]; data[j] = data[i], without the
\* temporary.
BaseSwap_overwrite(q, i, j) ==
    [q EXCEPT !.data = [q.data EXCEPT ![i + 1] = q.data[j + 1]],
              !.swaps = Append(@, <<i, j>>)]

BaseSwap(q, i, j) ==
    [q EXCEPT !.data = [q.data EXCEPT ![i + 1] = q.data[j + 1],
                                      ![j + 1] = q.data[i + 1]],
              !.swaps = Append(@, <<i, j>>)]

\* Mutant of EditableSwap: the two indices assigned the wrong way round.
EditableSwap_crossed(q, i, j) ==
    LET q1 == BaseSwap(q, i, j)
        d == q1.data
    IN  [q1 EXCEPT !.indices = Put(Put(q.indices, At(d, i).name, j), At(d, j).name, i)]

\* EditablePatientHeapQueue._swap: the exchange, then indices[data[i].name] = i
\* and indices[data[j].name] = j, in that order.
EditableSwap(q, i, j) ==
    LET q1 == BaseSwap(q, i, j)
        d == q1.data
    IN  [q1 EXCEPT !.indices = Put(Put(q.indices, At(d, i).name, i), At(d, j).name, j)]

\* self._swap, dispatched on the class of the object.
swap(c, q, i, j) == IF c = Editable THEN EditableSwap(q, i, j) ELSE BaseSwap(q, i, j)

parent_index(index) == (index - 1) \div 2

child_indices(index) == [delta \in 1..2 |-> 2 * index + delta]

\* Mutant of max_child_loop: a later child of equal priority replaces the
\* one found so far.
RECURSIVE max_child_loop_last_wins(_, _, _, _)
max_child_loop_last_wins(q, cis, k, max_index) ==
    IF k > Len(cis) \/ cis[k] >= Len(q.data)
    THEN [q |-> q, max_index |-> max_index]
    ELSE IF max_index = None
         THEN max_child_loop_last_wins(q, cis, k + 1, cis[k])
         ELSE LET q1 == [q EXCEPT !.comparisons = @ + 1]
              IN  IF At(q.data, cis[k]).priority >= At(q.data, max_index).priority
                  THEN max_child_loop_last_wins(q1, cis, k + 1, cis[k])
                  ELSE max_child_loop_last_wins(q1, cis, k + 1, max_index)

\* The loop of _max_child_priority_index from the k-th entry of child_indices
\* on, with max_index as found so far.  Yields [q, max_index].
RECURSIVE max_child_loop(_, _, _, _)
max_child_loop(q, cis, k, max_index) ==
    IF k > Len(cis) \/ cis[k] >= Len(q.data)
    THEN [q |-> q, max_index |-> max_index]
    ELSE IF max_index = None
         THEN max_child_loop(q, cis, k + 1, cis[k])
         ELSE LET q1 == [q EXCEPT !.comparisons = @ + 1]
              IN  IF At(q.data, cis[k]).priority > At(q.data, max_index).priority
                  THEN max_child_loop(q1, cis, k + 1, cis[k])
                  ELSE max_child_loop(q1, cis, k + 1, max_index)

\* Mutant of max_child_priority_index: the first valid child, uncompared.
first_child_index(q, cis) ==
    [q |-> q, max_index |-> IF cis[1] < Len(q.data) THEN cis[1] ELSE None]

max_child_priority_index(q, cis) == max_child_loop(q, cis, 1, None)

\* Mutant of sift_up: a parent of equal priority is passed too.
RECURSIVE sift_up_past_equal(_, _, _)
sift_up_past_equal(c, q, index) ==
    IF q.err \/ index = 0 THEN q
    ELSE IF index >= Len(q.data) THEN Raise(q)
    ELSE LET p == parent_index(index)
             q1 == [q EXCEPT !.comparisons = @ + 1]
         IN  IF At(q.data, p).priority <= At(q.data, index).priority
             THEN sift_up_past_equal(c, swap(c, q1, index, p), p)
             ELSE q1

\* Mutant of sift_up: the exchange with the parent is made in place, without
\* calling _swap.
RECURSIVE sift_up_inline(_, _, _)
sift_up_inline(c, q, index) ==
    IF q.err \/ index = 0 THEN q
    ELSE IF index >= Len(q.data) THEN Raise(q)
    ELSE LET p == parent_index(index)
             q1 == [q EXCEPT !.comparisons = @ + 1]
         IN  IF At(q.data, p).priority < At(q.data, index).priority
             THEN sift_up_inline(c, [q1 EXCEPT !.data = SetAt(SetAt(@, index, At(q.data, p)),
                                                              p, At(q.data, index))], p)
             ELSE q1

RECURSIVE sift_up(_, _, _)
sift_up(c, q, index) ==
    IF q.err \/ index = 0 THEN q
    ELSE IF index >= Len(q.data) THEN Raise(q)
    ELSE LET p == parent_index(index)
             q1 == [q EXCEPT !.comparisons = @ + 1]
         IN  IF At(q.data, p).priority < At(q.data, index).priority
             THEN sift_up(c, swap(c, q1, index, p), p)
             ELSE q1

\* Mutant of sift_down: one exchange with the larger child, not repeated
\* from the child's slot.
sift_down_once(c, q, index) ==
    IF q.err THEN q
    ELSE IF index >= Len(q.data) THEN Raise(q)
    ELSE LET m == max_child_priority_index(q, child_indices(index))
         IN  IF m.max_index = None THEN m.q
             ELSE LET q1 == [m.q EXCEPT !.comparisons = @ + 1]
                  IN  IF At(q.data, m.max_index).priority > At(q.data, index).priority
                      THEN swap(c, q1, index, m.max_index)
                      ELSE q1

\* Mutant of sift_down: the comparison of the child with the node is not
\* counted.
RECURSIVE sift_down_uncounted(_, _, _)
sift_down_uncounted(c, q, index) ==
    IF q.err THEN q
    ELSE IF index >= Len(q.data) THEN Raise(q)
    ELSE LET m == max_child_priority_index(q, child_indices(index))
         IN  IF m.max_index = None THEN m.q
             ELSE IF At(q.data, m.max_index).priority > At(q.data, index).priority
                  THEN sift_down_uncounted(c, swap(c, m.q, index, m.max_index), m.max_index)
                  ELSE m.q

RECURSIVE sift_down(_, _, _)
sift_down(c, q, index) ==
    IF q.err THEN q
    ELSE IF index >= Len(q.data) THEN Raise(q)
    ELSE LET m == max_child_priority_index(q, child_indices(index))
         IN  IF m.max_index = None THEN m.q
             ELSE LET q1 == [m.q EXCEPT !.comparisons = @ + 1]
                  IN  IF At(q.data, m.max_index).priority > At(q.data, index).priority
                      THEN sift_down(c, swap(c, q1, index, m.max_index), m.max_index)
                      ELSE q1

BaseEnqueue(c, q, patient) ==
    LET q1 == [q EXCEPT !.data = Append(@, patient)]
    IN  sift_up(c, q1, Len(q1.data) - 1)

\* EditablePatientHeapQueue.enqueue: indices[patient.name] = len(data), then
\* the superclass's enqueue.
EditableEnqueue(c, q, patient) ==
    BaseEnqueue(c, [q EXCEPT !.indices = Put(@, patient.name, Len(q.data))], patient)

\* self.enqueue, dispatched on the class of the object.
enqueue(c, q, patient) ==
    IF q.err THEN q
    ELSE IF c = Editable THEN EditableEnqueue(c, q, patient)
    ELSE BaseEnqueue(c, q, patient)

\* Mutant of BaseDequeue: an empty queue returns None instead of raising.
BaseDequeue_none_when_empty(c, q) ==
    IF q.err \/ Len(q.data) = 0 THEN q
    ELSE LET first_value == At(q.data, 0)
         IN  IF Len(q.data) # 1
             THEN LET dequeued == At(q.data, Len(q.data) - 1)
                      q1 == [q EXCEPT !.data = SetAt(Pop(@), 0, dequeued)]
                  IN  [sift_down(c, q1, 0) EXCEPT !.ret = first_value]
             ELSE [q EXCEPT !.data = Pop(@), !.ret = first_value]

\* Mutant of BaseDequeue: the only patient is returned but not popped.
BaseDequeue_keeps_only(c, q) ==
    IF q.err THEN q
    ELSE IF Len(q.data) = 0 THEN Raise(q)
    ELSE LET first_value == At(q.data, 0)
         IN  IF Len(q.data) # 1
             THEN LET dequeued == At(q.data, Len(q.data) - 1)
                      q1 == [q EXCEPT !.data = SetAt(Pop(@), 0, dequeued)]
                  IN  [sift_down(c, q1, 0) EXCEPT !.ret = first_value]
             ELSE [q EXCEPT !.ret = first_value]

\* Mutant of BaseDequeue: the patient taken from the last slot is returned.
BaseDequeue_returns_last(c, q) ==
    IF q.err THEN q
    ELSE IF Len(q.data) = 0 THEN Raise(q)
    ELSE LET first_value == At(q.data, 0)
         IN  IF Len(q.data) # 1
             THEN LET dequeued == At(q.data, Len(q.data) - 1)
                      q1 == [q EXCEPT !.data = SetAt(Pop(@), 0, dequeued)]
                  IN  [sift_down(c, q1, 0) EXCEPT !.ret = dequeued]
             ELSE [q EXCEPT !.data = Pop(@), !.ret = first_value]

BaseDequeue(c, q) ==
    IF q.err THEN q
    ELSE IF Len(q.data) = 0 THEN Raise(q)
    ELSE LET first_value == At(q.data, 0)
         IN  IF Len(q.data) # 1
             THEN LET dequeued == At(q.data, Len(q.data) - 1)
                      q1 == [q EXCEPT !.data = SetAt(Pop(@), 0, dequeued)]
                  IN  [sift_down(c, q1, 0) EXCEPT !.ret = first_value]
             ELSE [q EXCEPT !.data = Pop(@), !.ret = first_value]

\* Mutant of EditableDequeue: the last patient's index is not set to 0.
EditableDequeue_stale_tail(c, q) ==
    IF Len(q.data) = 0 THEN Raise(q)
    ELSE LET root == At(q.data, 0).name
         IN  IF root \notin DOMAIN q.indices THEN Raise(q)
             ELSE BaseDequeue(c, [q EXCEPT !.indices = Del(@, root)])

\* EditablePatientHeapQueue.dequeue: the bookkeeping of lines 184-188, then
\* the superclass's dequeue.
EditableDequeue(c, q) ==
    IF Len(q.data) = 0 THEN Raise(q)
    ELSE LET root == At(q.data, 0).name
             tail == At(q.data, Len(q.data) - 1).name
             i1 == IF Cardinality(DOMAIN q.indices) # 1
                   THEN Put(q.indices, tail, 0)
                   ELSE q.indices
             q1 == [q EXCEPT !.indices = i1]
         IN  IF root \notin DOMAIN i1 THEN Raise(q1)
             ELSE BaseDequeue(c, [q1 EXCEPT !.indices = Del(i1, root)])

\* self.dequeue, dispatched on the class of the object.
dequeue(c, q) ==
    IF q.err THEN q
    ELSE IF c = Editable THEN EditableDequeue(c, q)
    ELSE BaseDequeue(c, q)

RECURSIVE heapify_loop(_, _, _, _)
heapify_loop(c, q, start_data, k) ==
    IF k > Len(start_data) THEN q
    ELSE heapify_loop(c, enqueue(c, q, start_data[k]), start_data, k + 1)

heapify(c, q, start_data) == heapify_loop(c, q, start_data, 1)

\* Mutant of fast_heapify_loop: range(len(data) - 1, 0, -1), which stops
\* before index 0.
RECURSIVE fast_heapify_loop_skips_root(_, _, _)
fast_heapify_loop_skips_root(c, q, index) ==
    IF index < 1 THEN q
    ELSE fast_heapify_loop_skips_root(c, sift_down(c, q, index), index - 1)

\* The second loop of _fast_heapify: sift_down at index, index - 1, ..., 0.
RECURSIVE fast_heapify_loop(_, _, _)
fast_heapify_loop(c, q, index) ==
    IF index < 0 THEN q
    ELSE fast_heapify_loop(c, sift_down(c, q, index), index - 1)

fast_heapify(c, q, start_data) ==
    LET q1 == [q EXCEPT !.data = @ \o start_data]
    IN  fast_heapify_loop(c, q1, Len(q1.data) - 1)

BaseInit(c, q, start_data, fast) ==
    LET q1 == [q EXCEPT !.comparisons = 0, !.data = <<>>]
    IN  IF fast THEN fast_heapify(c, q1, start_data) ELSE heapify(c, q1, start_data)

\* The loop of lines 144-145: every name of start_data at its (last) offset.
seed_indices(start_data) ==
    [n \in NamesOf(start_data) |->
        (CHOOSE k \in DOMAIN start_data :
            /\ start_data[k].name = n
            /\ \A j \in DOMAIN start_data : start_data[j].name = n => j <= k) - 1]

\* EditablePatientHeapQueue.__init__: indices seeded with the offsets of
\* start_data, then the superclass's constructor.
EditableInit(c, q, start_data, fast) ==
    BaseInit(c, [q EXCEPT !.indices = seed_indices(start_data)], start_data, fast)

construct(c, start_data, fast) ==
    IF c = Editable THEN EditableInit(c, NewQueue, start_data, fast)
    ELSE BaseInit(c, NewQueue, start_data, fast)

\* PatientHeapQueue.__init__ with start_data left at its default, None, which
\* lines 21-22 replace by [].
BaseInitDefault(c, q, fast) == BaseInit(c, q, <<>>, fast)

\* EditablePatientHeapQueue.__init__ with start_data left at its default:
\* enumerate(None) on line 144 raises TypeError, indices = {} being all that
\* was assigned.
EditableInitDefault(c, q, fast) == Raise([q EXCEPT !.indices = EmptyDict])

\* The constructor called without start_data.
construct_default(c, fast) ==
    IF c = Editable THEN EditableInitDefault(c, NewQueue, fast)
    ELSE BaseInitDefault(c, NewQueue, fast)

-----------------------------------------------------------------------------
(* EditablePatientHeapQueue.remove *)

\* Mutant of remove_found: the moved patient is sifted down only.
remove_found_no_sift_up(c, q, patient_name) ==
    LET removed_index == q.indices[patient_name]
        q1 == [q EXCEPT !.indices = Del(@, patient_name)]
    IN  IF Len(q1.data) = 0 THEN Raise(q1)
        ELSE LET last_item == At(q1.data, Len(q1.data) - 1)
             IN  IF last_item.name # patient_name
                 THEN IF removed_index >= Len(q1.data) THEN Raise(q1)
                      ELSE LET q2 == [q1 EXCEPT
                                        !.data = Pop(SetAt(@, removed_index, last_item)),
                                        !.indices = Put(@, last_item.name, removed_index)]
                           IN  sift_down(c, q2, removed_index)
                 ELSE [q1 EXCEPT !.data = Pop(@)]

\* Mutant of remove_found: the last slot is dropped without the last patient
\* having been copied over the removed one.
remove_found_drops_last(c, q, patient_name) ==
    LET removed_index == q.indices[patient_name]
        q1 == [q EXCEPT !.indices = Del(@, patient_name)]
    IN  IF Len(q1.data) = 0 THEN Raise(q1)
        ELSE LET last_item == At(q1.data, Len(q1.data) - 1)
             IN  IF last_item.name # patient_name
                 THEN IF removed_index >= Len(q1.data) THEN Raise(q1)
                      ELSE LET q2 == [q1 EXCEPT
                                        !.data = Pop(@),
                                        !.indices = Put(@, last_item.name, removed_index)]
                           IN  sift_down(c, sift_up(c, q2, removed_index), removed_index)
                 ELSE [q1 EXCEPT !.data = Pop(@)]

\* Mutant of remove_found: the moved patient is sifted up only.
remove_found_no_sift_down(c, q, patient_name) ==
    LET removed_index == q.indices[patient_name]
        q1 == [q EXCEPT !.indices = Del(@, patient_name)]
    IN  IF Len(q1.data) = 0 THEN Raise(q1)
        ELSE LET last_item == At(q1.data, Len(q1.data) - 1)
             IN  IF last_item.name # patient_name
                 THEN IF removed_index >= Len(q1.data) THEN Raise(q1)
                      ELSE LET q2 == [q1 EXCEPT
                                        !.data = Pop(SetAt(@, removed_index, last_item)),
                                        !.indices = Put(@, last_item.name, removed_index)]
                           IN  sift_up(c, q2, removed_index)
                 ELSE [q1 EXCEPT !.data = Pop(@)]

\* Lines 160-170 once indices[patient_name] has been found.
remove_found(c, q, patient_name) ==
    LET removed_index == q.indices[patient_name]
             q1 == [q EXCEPT !.indices = Del(@, patient_name)]
    IN  IF Len(q1.data) = 0 THEN Raise(q1)
        ELSE LET last_item == At(q1.data, Len(q1.data) - 1)
             IN  IF last_item.name # patient_name
                 THEN IF removed_index >= Len(q1.data) THEN Raise(q1)
                      ELSE LET q2 == [q1 EXCEPT
                                        !.data = Pop(SetAt(@, removed_index, last_item)),
                                        !.indices = Put(@, last_item.name, removed_index)]
                           IN  sift_down(c, sift_up(c, q2, removed_index), removed_index)
                 ELSE [q1 EXCEPT !.data = Pop(@)]

\* Mutant of remove: a name that is not a key drops the last patient instead
\* of raising.
remove_unknown_pops(c, q, patient_name) ==
    IF patient_name \notin DOMAIN q.indices
    THEN IF Len(q.data) = 0 THEN q ELSE [q EXCEPT !.data = Pop(@)]
    ELSE remove_found(c, q, patient_name)

\* remove(patient_name): indices[patient_name] raises KeyError for a name that
\* is not a key of the dictionary, before anything is assigned.
remove(c, q, patient_name) ==
    IF patient_name \notin DOMAIN q.indices THEN Raise(q)
    ELSE remove_found(c, q, patient_name)

-----------------------------------------------------------------------------
(* The object between calls, and the calls *)

Self == [data |-> data, indices |-> indices, comparisons |-> comparisons,
         err |-> FALSE, ret |-> NoPatient, swaps |-> <<>>]

\* What the attributes were when the last call began.
Before == [data |-> data, indices |-> indices, comparisons |-> comparisons]

\* The last call: its name, its arguments (default: start_data was left out),
\* whether it returned (ok) or raised, the value it returned and the _swap
\* calls it made.
Call(op, q, name, patient, start_data, fast) ==
    [op |-> op, ok |-> ~q.err, name |-> name, patient |-> patient,
     ret |-> q.ret, start_data |-> start_data, fast |-> fast,
     default |-> FALSE, swaps |-> q.swaps]

\* There is an object: its constructor has not raised.
Constructed == ~(last.op = "init" /\ ~last.ok)

\* The object as its constructor leaves it, for the start_data of inputs.
InitFrom(inputs) ==
    \E c \in Classes, start_data \in inputs, fast \in BOOLEAN :
        LET q == construct(c, start_data, fast)
        IN  /\ cls = c
            /\ data = q.data
            /\ indices = q.indices
            /\ comparisons = q.comparisons
            /\ loop_index = None
            /\ last = Call("init", q, "", NoPatient, start_data, fast)
            /\ prev = [data |-> <<>>, indices |-> EmptyDict, comparisons |-> 0]
            /\ drained = <<>>
            /\ drain_from = <<>>
            /\ live = Len(start_data)
            /\ removed = {}

Init == InitFrom(StartData(MaxInit))

Commit(q) ==
    /\ data' = q.data
    /\ indices' = q.indices
    /\ comparisons' = q.comparisons
    /\ prev' = Before
    /\ cls' = cls
    /\ loop_index' = loop_index

EnqueueCall(patient) ==
    LET q == enqueue(cls, Self, patient)
    IN  /\ Constructed
        /\ Commit(q)
        /\ last' = Call("enqueue", q, patient.name, patient, <<>>, FALSE)
        /\ drained' = IF q.err THEN drained ELSE <<>>
        /\ drain_from' = IF q.err THEN drain_from ELSE <<>>
        /\ live' = IF q.err THEN live ELSE live + 1
        /\ removed' = IF q.err THEN removed ELSE removed \ {patient.name}

DequeueCall ==
    LET q == dequeue(cls, Self)
    IN  /\ Constructed
        /\ Commit(q)
        /\ last' = Call("dequeue", q, "", NoPatient, <<>>, FALSE)
        /\ drained' = IF q.err THEN drained ELSE Append(drained, q.ret)
        /\ drain_from' = IF q.err \/ drained # <<>> THEN drain_from ELSE data
        /\ live' = IF q.err THEN live ELSE live - 1
        /\ UNCHANGED removed

RemoveCall(patient_name) ==
    LET q == remove(cls, Self, patient_name)
    IN  /\ Constructed
        /\ Commit(q)
        /\ last' = Call("remove", q, patient_name, NoPatient, <<>>, FALSE)
        /\ drained' = IF q.err THEN drained ELSE <<>>
        /\ drain_from' = IF q.err THEN drain_from ELSE <<>>
        /\ live' = IF q.err THEN live ELSE live - 1
        /\ removed' = IF q.err THEN removed ELSE removed \cup {patient_name}

\* enqueue(patient) by a caller that keeps the names of the patients held unique.
Enqueue(patient) ==
    /\ comparisons < MaxComparisons
    /\ patient.name \notin NamesOf(data)
    /\ EnqueueCall(patient)

\* enqueue(patient) of a patient whose name is already held.
EnqueueDuplicate(patient) ==
    /\ comparisons < MaxComparisons
    /\ Len(data) < MaxDupSize
    /\ patient.name \in NamesOf(data)
    /\ EnqueueCall(patient)

Dequeue ==
    /\ comparisons < MaxComparisons
    /\ DequeueCall

Remove(patient_name) ==
    /\ comparisons < MaxComparisons
    /\ cls = Editable
    /\ RemoveCall(patient_name)

\* The names remove is called with: those held, those indices has as keys,
\* and one that is neither.
RemoveArgs == NamesOf(data) \cup DOMAIN indices \cup {Stranger}

Next ==
    \/ \E patient \in Patients : Enqueue(patient)
    \/ Dequeue
    \/ \E patient_name \in RemoveArgs : Remove(patient_name)

Spec == Init /\ [][Next]_vars

\* Construction from up to MaxBuild patients, then dequeues only.
InitBuild == InitFrom(StartData(MaxBuild))

NextBuild == DequeueCall

SpecBuild == InitBuild /\ [][NextBuild]_vars

\* Callers that enqueue and dequeue, and may enqueue a name that is already held.
NextDup ==
    \/ \E patient \in Patients : Enqueue(patient)
    \/ \E patient \in Patients : EnqueueDuplicate(patient)
    \/ Dequeue

SpecDup == Init /\ [][NextDup]_vars

\* The constructor called with or without start_data, then any calls.
InitDefault ==
    \/ Init
    \/ \E c \in Classes, fast \in BOOLEAN :
           LET q == construct_default(c, fast)
           IN  /\ cls = c
               /\ data = q.data
               /\ indices = q.indices
               /\ comparisons = q.comparisons
               /\ loop_index = None
               /\ last = [Call("init", q, "", NoPatient, <<>>, fast) EXCEPT !.default = TRUE]
               /\ prev = [data |-> <<>>, indices |-> EmptyDict, comparisons |-> 0]
               /\ drained = <<>>
               /\ drain_from = <<>>
               /\ live = 0
               /\ removed = {}

SpecDefault == InitDefault /\ [][Next]_vars

\* _fast_heapify after its first loop has copied start_data into data:
\* loop_index is the next value of index in its second loop, -1 once the loop
\* is over.
InitHeapify ==
    \E c \in Classes, start_data \in StartData(MaxBuild) :
        /\ cls = c
        /\ data = start_data
        /\ indices = IF c = Editable THEN seed_indices(start_data) ELSE EmptyDict
        /\ comparisons = 0
        /\ loop_index = Len(start_data) - 1
        /\ last = Call("fast_heapify", NewQueue, "", NoPatient, start_data, TRUE)
        /\ prev = [data |-> <<>>, indices |-> EmptyDict, comparisons |-> 0]
        /\ drained = <<>>
        /\ drain_from = <<>>
        /\ live = Len(start_data)
        /\ removed = {}

\* One pass of the second loop of _fast_heapify: self._sift_down(index).
FastHeapifyStep ==
    /\ last.op = "fast_heapify"
    /\ loop_index >= 0
    /\ LET q == sift_down(cls, Self, loop_index)
       IN  /\ data' = q.data
           /\ indices' = q.indices
           /\ comparisons' = q.comparisons
           /\ last' = [last EXCEPT !.ok = ~q.err, !.swaps = q.swaps]
    /\ prev' = Before
    /\ loop_index' = loop_index - 1
    /\ UNCHANGED <<cls, drained, drain_from, live, removed>>

NextHeapify == FastHeapifyStep

SpecHeapify == InitHeapify /\ [][NextHeapify]_vars

-----------------------------------------------------------------------------
(* Properties *)

HeapOrder(s) ==
    \A i \in 0..(Len(s) - 1) : \A child \in {2 * i + 1, 2 * i + 2} :
        child < Len(s) => At(s, i).priority >= At(s, child).priority

PositionIndex(s, d) ==
    /\ DOMAIN d = NamesOf(s)
    /\ \A i \in 0..(Len(s) - 1) : d[At(s, i).name] = i

StrictlyDescending(s) ==
    \A i \in 1..(Len(s) - 1) : s[i].priority > s[i + 1].priority

Count(s, x) == Cardinality({k \in DOMAIN s : s[k] = x})

SameElements(s, t) == \A x \in Range(s) \cup Range(t) : Count(s, x) = Count(t, x)

\* What dequeuing q until it is empty returns, in order.
RECURSIVE drain_all(_, _)
drain_all(c, q) ==
    IF Len(q.data) = 0 THEN <<>>
    ELSE LET q1 == dequeue(c, q)
         IN  IF q1.err THEN <<>> ELSE <<q1.ret>> \o drain_all(c, q1)

Unchanged == data = prev.data /\ indices = prev.indices /\ comparisons = prev.comparisons

\* C1: after construction in either mode and after every enqueue, dequeue and
\* remove, no stored patient has a child (at 2i+1 or 2i+2) of strictly greater
\* priority.
C1_HeapOrder == HeapOrder(data)

\* remove has moved the last patient of six into slot 3 or 4 and sifted it up
\* to slot 1.
C1_Witness ==
    /\ last.op = "remove" /\ last.ok
    /\ Len(prev.data) = 6
    /\ prev.indices[last.name] \in {3, 4}
    /\ At(data, 1) = At(prev.data, 5)

\* C2: in an EditablePatientHeapQueue whose patients have pairwise distinct
\* names, the keys of indices are exactly the names in data and
\* indices[data[i].name] = i for every slot i; dequeuing the only patient
\* leaves data and indices empty.
C2_PositionIndex ==
    cls = Editable =>
        /\ PositionIndex(data, indices)
        /\ (last.op = "dequeue" /\ Len(prev.data) = 1) =>
               (last.ok /\ data = <<>> /\ indices = EmptyDict)

\* dequeue has moved the last of at least four patients to the root and
\* sifted it down.
C2_Witness ==
    /\ cls = Editable
    /\ last.op = "dequeue" /\ last.ok
    /\ Len(prev.data) >= 4
    /\ At(data, 0) # At(prev.data, Len(prev.data) - 1)

\* The only patient of an EditablePatientHeapQueue has been dequeued.
C2_WitnessOnly ==
    /\ cls = Editable
    /\ last.op = "dequeue" /\ last.ok
    /\ Len(prev.data) = 1

\* C3: when the patients held have pairwise distinct priorities, dequeuing
\* until the queue is empty returns all of them in strictly descending
\* priority order: so does every run of dequeues made so far, and so would
\* the dequeues still to come.
C3_DequeueOrder ==
    /\ (drained # <<>> /\ DistinctPriorities(drain_from)) =>
           /\ StrictlyDescending(drained)
           /\ SameElements(drained \o data, drain_from)
           /\ \A k \in DOMAIN data : data[k].priority < drained[Len(drained)].priority
    /\ DistinctPriorities(data) =>
           /\ StrictlyDescending(drain_all(cls, Self))
           /\ SameElements(drain_all(cls, Self), data)

\* Four patients of distinct priorities, not stored in descending order, have
\* all been dequeued.
C3_Witness ==
    /\ data = <<>>
    /\ Len(drained) >= 4
    /\ DistinctPriorities(drain_from)
    /\ ~StrictlyDescending(drain_from)

\* C4: for a start_data of pairwise distinct priorities, the queue the
\* constructor built dequeues in the same order as the queue the other mode
\* builds from the same start_data, at every point of the dequeuing.
C4_ConstructionEquivalence ==
    (last.op = "init" /\ DistinctPriorities(last.start_data)) =>
        drain_all(cls, Self) =
            drain_all(cls, construct(cls, last.start_data, ~last.fast))

\* Five patients of distinct priorities from which the two modes build
\* different arrays.
C4_Witness ==
    /\ last.op = "init" /\ last.fast
    /\ Len(data) = 5
    /\ DistinctPriorities(last.start_data)
    /\ data # construct(cls, last.start_data, FALSE).data

\* C5: remove(k) of a name that is held shrinks data by exactly one patient,
\* the one named k, and keeps every other patient exactly once; a name that
\* was removed and not enqueued again is not held, and no dequeue returns it.
C5_RemoveEffect ==
    /\ (last.op = "remove" /\ last.name \in NamesOf(prev.data)) =>
           /\ last.ok
           /\ Len(data) = Len(prev.data) - 1
           /\ last.name \notin NamesOf(data)
           /\ \A x \in Range(prev.data) :
                  Count(data, x) = IF x.name = last.name THEN 0 ELSE 1
    /\ removed \cap NamesOf(data) = {}
    /\ (last.op = "dequeue" /\ last.ok) => last.ret.name \notin removed

\* After a remove, the three patients left have all been dequeued.
C5_Witness ==
    /\ last.op = "dequeue" /\ last.ok
    /\ removed # {}
    /\ data = <<>>
    /\ Len(drained) >= 3

\* remove of a patient that was neither at the root nor in the last slot.
C5_WitnessMiddle ==
    /\ last.op = "remove" /\ last.ok
    /\ Len(prev.data) >= 5
    /\ prev.indices[last.name] \notin {0, Len(prev.data) - 1}

\* remove of the patient at the root.
C5_WitnessRoot ==
    /\ last.op = "remove" /\ last.ok
    /\ Len(prev.data) >= 4
    /\ prev.indices[last.name] = 0

\* remove of the patient in the last slot.
C5_WitnessLast ==
    /\ last.op = "remove" /\ last.ok
    /\ Len(prev.data) >= 4
    /\ prev.indices[last.name] = Len(prev.data) - 1

\* C6: remove(k) of a name that is not a key of indices raises and leaves
\* data, indices and comparisons as they were.
C6_RemoveUnknown ==
    (last.op = "remove" /\ last.name \notin DOMAIN prev.indices) =>
        (~last.ok /\ Unchanged)

\* remove of a name that is not held, on a queue that holds others.
C6_Witness ==
    /\ last.op = "remove" /\ ~last.ok
    /\ Len(data) >= 3
    /\ last.name \notin NamesOf(data)

\* C7: dequeue on an empty queue raises, in both classes, and leaves data,
\* indices and comparisons as they were, the heap order and the position
\* index still holding.
C7_DequeueEmpty ==
    (last.op = "dequeue" /\ Len(prev.data) = 0) =>
        /\ ~last.ok
        /\ Unchanged
        /\ HeapOrder(data)
        /\ cls = Editable => PositionIndex(data, indices)

\* dequeue on an EditablePatientHeapQueue that enqueues and dequeues emptied.
C7_Witness ==
    /\ cls = Editable
    /\ last.op = "dequeue" /\ ~last.ok
    /\ comparisons > 0

\* dequeue on an empty PatientHeapQueue.
C7_WitnessBase ==
    /\ cls = Base
    /\ last.op = "dequeue" /\ ~last.ok

\* C8: enqueue on an EditablePatientHeapQueue of a patient whose name is
\* already held is rejected: it raises and leaves data and indices as they
\* were.
C8_DuplicateRejected ==
    (cls = Editable /\ last.op = "enqueue" /\ last.name \in NamesOf(prev.data)) =>
        (~last.ok /\ data = prev.data /\ indices = prev.indices)

\* C9: the length of data is the number of patients inserted by the
\* constructor and by enqueue and not yet dequeued or removed; an enqueue
\* adds exactly one and a dequeue, that of the only patient too, takes exactly
\* one.
C9_Size ==
    /\ Len(data) = live
    /\ last.op = "init" => (last.ok /\ Len(data) = Len(last.start_data))
    /\ last.op = "enqueue" => (last.ok /\ Len(data) = Len(prev.data) + 1)
    /\ (last.op = "dequeue" /\ Len(prev.data) > 0) =>
           (last.ok /\ Len(data) = Len(prev.data) - 1)

\* The sixth patient has been enqueued.
C9_Witness ==
    /\ last.op = "enqueue" /\ last.ok
    /\ Len(data) = 6

\* The only patient has been dequeued.
C9_WitnessOnly ==
    /\ last.op = "dequeue" /\ last.ok
    /\ Len(prev.data) = 1 /\ data = <<>>

\* C10: when the constructor of EditablePatientHeapQueue returns, in either
\* mode, indices has exactly the names in data as keys and
\* indices[data[i].name] = i for every slot i.
C10_IndexedConstruction ==
    (cls = Editable /\ last.op = "init") =>
        (last.ok /\ Len(data) = Len(last.start_data) /\ PositionIndex(data, indices))

\* Fast construction from five patients, four of which left the offset that
\* indices was seeded with.
C10_Witness ==
    /\ cls = Editable
    /\ last.op = "init" /\ last.fast
    /\ Len(data) = 5
    /\ Cardinality({k \in DOMAIN data : data[k] # last.start_data[k]}) >= 4

NonIncreasing(s) ==
    \A i \in 1..(Len(s) - 1) : s[i].priority >= s[i + 1].priority

\* C11: dequeue on a queue that holds patients, tied in priority or not,
\* returns the patient that was at data[0], whose priority is greater than or
\* equal to that of every patient left; successive dequeues return priorities
\* in non-increasing order.
C11_DequeueMax ==
    /\ (last.op = "dequeue" /\ Len(prev.data) > 0) =>
           /\ last.ok
           /\ last.ret = At(prev.data, 0)
           /\ \A k \in DOMAIN data : data[k].priority <= last.ret.priority
    /\ NonIncreasing(drained)

\* Two successive dequeues have returned patients of the same priority, a
\* patient of lower priority being left.
C11_Witness ==
    /\ last.op = "dequeue" /\ last.ok
    /\ Len(drained) >= 2
    /\ drained[Len(drained) - 1].priority = drained[Len(drained)].priority
    /\ drained[Len(drained) - 1] # drained[Len(drained)]
    /\ data # <<>>

\* C12: constructing an EditablePatientHeapQueue without start_data succeeds,
\* as it does for a PatientHeapQueue, in both modes, and leaves data and
\* indices empty.
C12_DefaultConstruction ==
    (last.op = "init" /\ last.default) =>
        (last.ok /\ Len(data) = 0 /\ indices = EmptyDict)

\* Slot i is in the subtree rooted at slot j.
RECURSIVE InSubtree(_, _)
InSubtree(i, j) ==
    IF i = j THEN TRUE
    ELSE IF i < j THEN FALSE
    ELSE InSubtree((i - 1) \div 2, j)

\* No slot of the subtree rooted at j has a child of strictly greater priority.
SubtreeHeap(s, j) ==
    \A i \in 0..(Len(s) - 1) : InSubtree(i, j) =>
        \A child \in {2 * i + 1, 2 * i + 2} :
            child < Len(s) => At(s, i).priority >= At(s, child).priority

\* C13: in the second loop of _fast_heapify, which runs _sift_down at
\* len - 1, len - 2, ..., 0, every subtree rooted at a slot above the next
\* index to be processed is a max-heap: before _sift_down(k) those rooted at
\* j > k, after it that rooted at k too; once index 0 has been processed data
\* is a max-heap, the one the constructor in fast mode returns.
C13_FastHeapifyInvariant ==
    last.op = "fast_heapify" =>
        /\ last.ok
        /\ \A j \in (loop_index + 1)..(Len(data) - 1) : SubtreeHeap(data, j)
        /\ loop_index = -1 =>
               /\ HeapOrder(data)
               /\ LET q == construct(cls, last.start_data, TRUE)
                  IN  /\ data = q.data
                      /\ indices = q.indices
                      /\ comparisons = q.comparisons

\* The loop over five patients has ended with _sift_down(0) taking the root
\* down two levels.
C13_Witness ==
    /\ last.op = "fast_heapify"
    /\ loop_index = -1
    /\ Len(data) = 5
    /\ Len(last.swaps) = 2

\* The _swap calls of _sift_up are _swap(index, parent) and those of
\* _sift_down are _swap(index, child): the first argument is the greater one
\* in the former and the smaller one in the latter.
SiftUpSwaps(sw) == {k \in DOMAIN sw : sw[k][1] > sw[k][2]}

SiftDownSwaps(sw) == {k \in DOMAIN sw : sw[k][1] < sw[k][2]}

\* remove has moved the last patient into the slot of the removed one.
RemoveMoved ==
    /\ last.op = "remove" /\ last.ok
    /\ last.name # At(prev.data, Len(prev.data) - 1).name

\* C14 as stated: when remove moves the last patient into removed_index,
\* exactly one of _sift_up(removed_index) and _sift_down(removed_index)
\* makes no swap.
C14_ExactlyOneNoOp ==
    RemoveMoved =>
        (SiftUpSwaps(last.swaps) = {}) # (SiftDownSwaps(last.swaps) = {})

\* C14, amended: when remove moves the last patient into removed_index, at
\* least one of the two sifts makes no swap.  _sift_up swaps exactly when the
\* moved patient's priority is strictly greater than its new parent's,
\* _sift_down exactly when it is strictly less than that of one of its new
\* children, and neither swaps when the moved patient fits where it was put.
C14_AtMostOneSiftSwaps ==
    RemoveMoved =>
        LET removed_index == prev.indices[last.name]
            moved == At(prev.data, Len(prev.data) - 1)
            size == Len(prev.data) - 1
            children == {ci \in {2 * removed_index + 1, 2 * removed_index + 2} : ci < size}
            up == SiftUpSwaps(last.swaps)
            down == SiftDownSwaps(last.swaps)
        IN  /\ up = {} \/ down = {}
            /\ up # {} <=>
                   /\ removed_index > 0
                   /\ At(prev.data, (removed_index - 1) \div 2).priority < moved.priority
            /\ down # {} <=>
                   \E ci \in children : At(prev.data, ci).priority > moved.priority

\* The moved patient has been sifted up.
C14_Witness ==
    /\ RemoveMoved
    /\ SiftUpSwaps(last.swaps) # {}

\* The moved patient has been sifted down.
C14_WitnessDown ==
    /\ RemoveMoved
    /\ SiftDownSwaps(last.swaps) # {}

\* The moved patient has stayed in a slot that has a parent and a child:
\* neither sift has made a swap.
C14_WitnessNeither ==
    /\ RemoveMoved
    /\ last.swaps = <<>>
    /\ prev.indices[last.name] = 1
    /\ Len(prev.data) >= 5

\* s after the first n exchanges of sw.
RECURSIVE ApplySwaps(_, _, _)
ApplySwaps(s, sw, n) ==
    IF n = 0 THEN s
    ELSE LET t == ApplySwaps(s, sw, n - 1)
         IN  [t EXCEPT ![sw[n][1] + 1] = t[sw[n][2] + 1],
                       ![sw[n][2] + 1] = t[sw[n][1] + 1]]

\* The child a sift-down at slot i of s is to consider: the right one only if
\* its priority is strictly greater than the left one's, None at a leaf.
Candidate(s, i) ==
    IF 2 * i + 1 >= Len(s) THEN None
    ELSE IF 2 * i + 2 < Len(s) /\ At(s, 2 * i + 2).priority > At(s, 2 * i + 1).priority
         THEN 2 * i + 2
         ELSE 2 * i + 1

\* A sift-down is to exchange slot i of s with its candidate child.
ShouldSwap(s, i) ==
    /\ Candidate(s, i) # None
    /\ At(s, Candidate(s, i)).priority > At(s, i).priority

\* A pass of the second loop of _fast_heapify has run.
SiftedDown == last.op = "fast_heapify" /\ loop_index < Len(data) - 1

\* C15: every step of _sift_down takes as candidate the right child only if
\* its priority is strictly greater than the left child's, else the left
\* child, and swaps the node with the candidate only if the candidate's
\* priority is strictly greater than the node's: children of equal priority
\* resolve to the left one, and a node whose priority equals its largest
\* child's stays.
C15_SiftDownTieBreak ==
    SiftedDown =>
        LET sw == last.swaps
            node(n) == IF n = 1 THEN loop_index + 1 ELSE sw[n - 1][2]
        IN  /\ \A n \in DOMAIN sw :
                   LET s == ApplySwaps(prev.data, sw, n - 1)
                   IN  /\ sw[n][1] = node(n)
                       /\ ShouldSwap(s, node(n))
                       /\ sw[n][2] = Candidate(s, node(n))
            /\ ~ShouldSwap(data, node(Len(sw) + 1))
            /\ data = ApplySwaps(prev.data, sw, Len(sw))

\* A node with two children of equal priority, greater than its own, has
\* been exchanged with the left one.
C15_Witness ==
    /\ SiftedDown
    /\ LET i == loop_index + 1
       IN  /\ 2 * i + 2 < Len(data)
           /\ At(prev.data, 2 * i + 1).priority = At(prev.data, 2 * i + 2).priority
           /\ At(prev.data, i).priority < At(prev.data, 2 * i + 1).priority
           /\ last.swaps # <<>>
           /\ last.swaps[1] = <<i, 2 * i + 1>>

\* A node whose priority equals that of its largest child, the right one,
\* has stayed.
C15_WitnessEqual ==
    /\ SiftedDown
    /\ LET i == loop_index + 1
       IN  /\ 2 * i + 2 < Len(data)
           /\ At(prev.data, 2 * i + 2).priority > At(prev.data, 2 * i + 1).priority
           /\ At(prev.data, i).priority = At(prev.data, 2 * i + 2).priority
           /\ last.swaps = <<>>

\* C16: enqueue appends the patient at index len(data) and moves it up past
\* exactly the consecutive ancestors whose priority is strictly less than
\* its own, stopping at the root or below the first ancestor whose priority
\* is greater than or equal to its own; a parent of equal priority is never
\* passed, each ancestor passed moves down one level, and no patient off the
\* path from the new slot to the root changes slot.
C16_SiftUpStop ==
    (last.op = "enqueue" /\ last.ok) =>
        LET e == last.patient
            size == Len(prev.data)
            sw == last.swaps
            pos(m) == IF m = 0 THEN size ELSE sw[m][2]
            top == pos(Len(sw))
        IN  /\ \A m \in DOMAIN sw :
                   /\ pos(m - 1) > 0
                   /\ sw[m] = <<pos(m - 1), (pos(m - 1) - 1) \div 2>>
                   /\ At(prev.data, sw[m][2]).priority < e.priority
                   /\ At(data, pos(m - 1)) = At(prev.data, sw[m][2])
            /\ At(data, top) = e
            /\ top = 0 \/ At(prev.data, (top - 1) \div 2).priority >= e.priority
            /\ data = ApplySwaps(Append(prev.data, e), sw, Len(sw))
            /\ \A i \in 0..(size - 1) :
                   ~InSubtree(size, i) => At(data, i) = At(prev.data, i)

\* The patient enqueued has passed its parent, of lower priority, and
\* stopped below the root, of equal priority.
C16_Witness ==
    /\ last.op = "enqueue" /\ last.ok
    /\ Len(last.swaps) = 1
    /\ Len(data) >= 4
    /\ At(data, 0).priority = last.patient.priority
    /\ At(data, 0) # last.patient

\* The patient enqueued has passed two ancestors and reached the root.
C16_WitnessRoot ==
    /\ last.op = "enqueue" /\ last.ok
    /\ Len(last.swaps) = 2
    /\ At(data, 0) = last.patient

\* The number of children slot i has in an array of the given size.
ValidChildren(i, size) == Cardinality({ci \in {2 * i + 1, 2 * i + 2} : ci < size})

IsSiftUpSwap(x) == x[1] > x[2]

IsSiftDownSwap(x) == x[1] < x[2]

\* What a sift-up from slot start that made the swaps sw adds to comparisons:
\* one per swap, and one more unless it ended at the root.
SiftUpCount(start, sw) ==
    LET top == IF sw = <<>> THEN start ELSE sw[Len(sw)][2]
    IN  Len(sw) + (IF top = 0 THEN 0 ELSE 1)

\* What a sift-down from slot start that made the swaps sw adds: at every
\* node it stood on, the number of children of that node.
RECURSIVE SiftDownCount(_, _, _)
SiftDownCount(start, sw, size) ==
    ValidChildren(start, size) +
        (IF sw = <<>> THEN 0 ELSE SiftDownCount(sw[1][2], Tail(sw), size))

\* C17: comparisons goes up by one per priority comparison.  An enqueue whose
\* sift-up makes s swaps adds s if the patient reaches the root and s + 1
\* otherwise (0 on an empty queue); a sift-down adds, at every node it stands
\* on, the number of valid children of that node (0, 1 or 2), in dequeue and
\* in remove; comparisons never decreases, and a call that sifts nothing
\* (a call that raises, the dequeue of the only patient, the remove of the
\* last patient) leaves it as it was.  Every swap follows a comparison, so
\* the constructor counts no fewer comparisons than it makes swaps.
C17_ComparisonCount ==
    LET added == comparisons - prev.comparisons
        sw == last.swaps
    IN  /\ added >= 0
        /\ last.op = "init" => comparisons >= Len(last.swaps)
        /\ ~last.ok => added = 0
        /\ (last.op = "enqueue" /\ last.ok) =>
               /\ added = SiftUpCount(Len(prev.data), sw)
               /\ prev.data = <<>> => added = 0
        /\ (last.op = "dequeue" /\ last.ok) =>
               added = IF Len(prev.data) = 1 THEN 0
                       ELSE SiftDownCount(0, sw, Len(data))
        /\ (last.op = "remove" /\ last.ok) =>
               added = IF ~RemoveMoved THEN 0
                       ELSE LET removed_index == prev.indices[last.name]
                            IN  SiftUpCount(removed_index, SelectSeq(sw, IsSiftUpSwap))
                                + SiftDownCount(removed_index,
                                                SelectSeq(sw, IsSiftDownSwap), Len(data))

\* A dequeue has sifted the new root down from a node with two children to a
\* node with one child and on to a leaf: 2 + 1 + 0 comparisons.
C17_Witness ==
    /\ last.op = "dequeue" /\ last.ok
    /\ Len(data) = 4
    /\ last.swaps = <<<<0, 1>>, <<1, 3>>>>
    /\ comparisons = prev.comparisons + 3

\* An enqueue has made one swap and stopped below the root: 2 comparisons.
C17_WitnessEnqueue ==
    /\ last.op = "enqueue" /\ last.ok
    /\ Len(last.swaps) = 1
    /\ At(data, 0) # last.patient
    /\ comparisons = prev.comparisons + 2

\* A remove has sifted the moved patient up by one level: 2 comparisons going
\* up, and those of the sift-down that follows.
C17_WitnessRemove ==
    /\ RemoveMoved
    /\ SiftUpSwaps(last.swaps) # {}
    /\ comparisons > prev.comparisons + 1

\* The dictionary d after the first n exchanges of sw on s, each followed by
\* the two assignments of EditablePatientHeapQueue._swap.
RECURSIVE ApplyIndices(_, _, _, _)
ApplyIndices(d, s, sw, n) ==
    IF n = 0 THEN d
    ELSE LET t == ApplySwaps(s, sw, n)
         IN  Put(Put(ApplyIndices(d, s, sw, n - 1), At(t, sw[n][1]).name, sw[n][1]),
                 At(t, sw[n][2]).name, sw[n][2])

\* data and indices are what the _swap calls of the last call make of the
\* array s and the dictionary d.
OnlySwapped(s, d) ==
    /\ data = ApplySwaps(s, last.swaps, Len(last.swaps))
    /\ indices = ApplyIndices(d, s, last.swaps, Len(last.swaps))

\* What remove has assigned by itself before it calls the sifts: the last
\* patient in the slot of the removed one, with its index, or nothing but the
\* pop when the removed patient is the last one.
RemoveAssigned ==
    LET removed_index == prev.indices[last.name]
        tail == At(prev.data, Len(prev.data) - 1)
    IN  IF tail.name = last.name
        THEN [data |-> Pop(prev.data), indices |-> Del(prev.indices, last.name)]
        ELSE [data |-> Pop(SetAt(prev.data, removed_index, tail)),
              indices |-> Put(Del(prev.indices, last.name), tail.name, removed_index)]

\* The slots that the constructor, enqueue and remove leave to the methods
\* of PatientHeapQueue are changed by _swap calls only.
SwappedOutsideDequeue ==
    /\ last.op = "init" => OnlySwapped(last.start_data, seed_indices(last.start_data))
    /\ last.op = "enqueue" =>
           OnlySwapped(Append(prev.data, last.patient),
                       Put(prev.indices, last.name, Len(prev.data)))
    /\ last.op = "remove" => OnlySwapped(RemoveAssigned.data, RemoveAssigned.indices)

\* C18 as stated: in an EditablePatientHeapQueue every change of the patient
\* in a slot that PatientHeapQueue's enqueue, dequeue, sifts and heapify make
\* is made by the overridden _swap, which sets the two indices too: the slots
\* that remain after a dequeue hold what the _swap calls alone put there.
C18_OnlyThroughSwap ==
    (cls = Editable /\ last.ok) =>
        /\ SwappedOutsideDequeue
        /\ last.op = "dequeue" =>
               data = ApplySwaps(Pop(prev.data), last.swaps, Len(last.swaps))

\* C18, amended: every exchange that PatientHeapQueue's enqueue, sifts and
\* heapify make goes through the overridden _swap, which sets the two
\* indices in the same step.  PatientHeapQueue.dequeue is the exception: it
\* puts the last patient in slot 0 by assignment (self.data[0] = dequeued),
\* for which EditablePatientHeapQueue.dequeue sets that patient's index to 0
\* itself; the sift-down that follows goes through _swap.
C18_SwapOrRootAssignment ==
    (cls = Editable /\ last.ok) =>
        /\ SwappedOutsideDequeue
        /\ last.op = "dequeue" =>
               IF Len(prev.data) = 1 THEN data = <<>> /\ indices = EmptyDict
               ELSE LET tail == At(prev.data, Len(prev.data) - 1)
                        root == At(prev.data, 0)
                    IN  OnlySwapped(SetAt(Pop(prev.data), 0, tail),
                                    Del(Put(prev.indices, tail.name, 0), root.name))

\* A dequeue on an EditablePatientHeapQueue of five patients has assigned
\* the last one to slot 0 and sifted it down two levels through _swap.
C18_Witness ==
    /\ cls = Editable
    /\ last.op = "dequeue" /\ last.ok
    /\ Len(prev.data) = 5
    /\ Len(last.swaps) = 2

\* An enqueue on an EditablePatientHeapQueue has taken the patient to the
\* root in two _swap calls.
C18_WitnessEnqueue ==
    /\ cls = Editable
    /\ last.op = "enqueue" /\ last.ok
    /\ Len(last.swaps) = 2

\* C19: no call loses or duplicates a patient.  The constructor, in either
\* mode, stores the patients of start_data, each as often as given; after an
\* enqueue the patients stored are those stored before and the one enqueued;
\* after a dequeue they are those stored before less the one returned; a call
\* that raises stores what was stored.  The sifts and both heapify modes only
\* permute data.
C19_Conservation ==
    /\ last.op = "init" => SameElements(data, last.start_data)
    /\ (last.op = "enqueue" /\ last.ok) =>
           SameElements(data, Append(prev.data, last.patient))
    /\ (last.op = "dequeue" /\ last.ok) =>
           SameElements(Append(data, last.ret), prev.data)
    /\ (last.op = "remove" /\ last.ok) =>
           \E x \in Range(prev.data) :
               x.name = last.name /\ SameElements(Append(data, x), prev.data)
    /\ ~last.ok => data = prev.data

\* A dequeue on six patients has sifted the new root down.
C19_Witness ==
    /\ last.op = "dequeue" /\ last.ok
    /\ Len(prev.data) = 6
    /\ last.swaps # <<>>

\* An enqueue on four patients has sifted the new one up.
C19_WitnessEnqueue ==
    /\ last.op = "enqueue" /\ last.ok
    /\ Len(prev.data) = 4
    /\ last.swaps # <<>>

\* The constructor in fast mode has stored its three patients in another
\* order than given.
C19_WitnessInit ==
    /\ last.op = "init" /\ last.fast
    /\ Len(data) = 3
    /\ data # last.start_data

====
